---- MODULE Spec2Model ----
(***************************************************************************)
(* A model of myshell.c: the prompt / read / strip / dispatch loop of main, *)
(* the sscanf and strncmp based command recognition, and the built-in      *)
(* commands, run against a small POSIX-like directory tree.                *)
(*                                                                         *)
(* Text is modelled as sequences of one-character strings, so that the     *)
(* parsing done by fgets, strip_trailing_whitespace, sscanf and strncmp is  *)
(* computed character by character as the C library does it.               *)
(***************************************************************************)
EXTENDS Integers, Sequences, FiniteSets, TLC

\* ---------------------------------------------------------------- constants

MAX_PATH_LENGTH == 256

MAX_BUFFER_LENGTH == 256

\* sizeof(buffer) of do_cat's local char buffer[2048]
CAT_BUFFER_SIZE == 2048

\* ------------------------------------------------------------------- bounds

\* The file system refuses to create a node beyond this many (ENOSPC).
MaxNodes == 7

\* How many bytes below buffer[0] may hold white space when a strip runs.
MaxUnder == 1

\* Values an uninitialised byte of do_cat's buffer may hold.
StaleBytes == {0, 65}

\* ---------------------------------------------------------------- characters

NUL == ""

\* isspace() of <ctype.h> in the C locale (the vertical tab has no TLA+ escape)
IsSpace(c) == c \in {" ", "\t", "\n", "\f", "\r"}

Min(a, b) == IF a < b THEN a ELSE b

Spaces(n) == [i \in 1..n |-> " "]

\* The literal parts of the sscanf formats and the strncmp operands.
S_cd == <<"c", "d">>

S_exit == <<"e", "x", "i", "t">>

S_cat == <<"c", "a", "t">>

S_stat == <<"s", "t", "a", "t">>

S_mkdir == <<"m", "k", "d", "i", "r">>

S_rmdir == <<"r", "m", "d", "i", "r">>

S_rm == <<"r", "m">>

S_ls == <<"l", "s">>

S_pwd == <<"p", "w", "d">>

DOT == <<".">>

DOTDOT == <<".", ".">>

\* ------------------------------------------------------------ C library text

\* strnlen(string, MAX_BUFFER_LENGTH): a C string is held without its NUL.
Strnlen(s, max) == Min(Len(s), max)

\* strncmp(a, b, n) == 0
StrncmpEq(a, b, n) == SubSeq(a, 1, Min(Len(a), n)) = SubSeq(b, 1, Min(Len(b), n))

RECURSIVE SkipSpace(_)
SkipSpace(s) ==
    IF s # <<>> /\ IsSpace(Head(s)) THEN SkipSpace(Tail(s)) ELSE s

RECURSIVE Token(_)
Token(s) ==
    IF s = <<>> \/ IsSpace(Head(s)) THEN <<>> ELSE <<Head(s)>> \o Token(Tail(s))

\* sscanf(buffer, "<lit> %s", filename): the literal must match the start of
\* the input character by character (no white space is skipped before it),
\* the blank in the format skips any amount of white space, none included,
\* and %s stores the next run of non-space characters. rc is the return
\* value: 1 with the token stored, 0 on a mismatch, -1 (EOF) when the input
\* ends before the conversion.
Sscanf(buffer, lit) ==
    LET n == Len(lit)
        m == Min(Len(buffer), n)
    IN  IF SubSeq(buffer, 1, m) # SubSeq(lit, 1, m)
        THEN [rc |-> 0, tok |-> <<>>]
        ELSE IF Len(buffer) < n
        THEN [rc |-> -1, tok |-> <<>>]
        ELSE LET rest == SkipSpace(SubSeq(buffer, n + 1, Len(buffer)))
             IN  IF rest = <<>>
                 THEN [rc |-> -1, tok |-> <<>>]
                 ELSE [rc |-> 1, tok |-> Token(rest)]

\* fgets(buffer, MAX_BUFFER_LENGTH, stdin) on a stream that holds at least one
\* character: at most MAX_BUFFER_LENGTH - 1 characters, stopping after the
\* first newline; what it did not consume stays in the stream.
FirstNewline(stream) ==
    IF \E i \in 1..Len(stream) : stream[i] = "\n"
    THEN CHOOSE i \in 1..Len(stream) :
             stream[i] = "\n" /\ \A j \in 1..(i - 1) : stream[j] # "\n"
    ELSE Len(stream)

Fgets(stream) ==
    LET k == Min(FirstNewline(stream), MAX_BUFFER_LENGTH - 1)
    IN  [line |-> SubSeq(stream, 1, k), rest |-> SubSeq(stream, k + 1, Len(stream))]

\* The memory strip_trailing_whitespace works on: the string at indices
\* 0.., its terminating NUL, and below index 0 whatever precedes the buffer
\* in memory: `under` white-space bytes, then a byte that is not white space.
StringMemory(string, under) ==
    [j \in (-(MaxUnder + 1))..(MAX_BUFFER_LENGTH - 1) |->
        IF j >= 0
        THEN IF j < Len(string) THEN string[j + 1] ELSE NUL
        ELSE IF j >= -under THEN " " ELSE NUL]

\* while (isspace(string[i])) string[i--] = 0;
\* The loop reads downwards from i0 and stops at the first byte that is not
\* white space, having zeroed every byte above it. (Written without
\* recursion: the loop runs up to MAX_BUFFER_LENGTH - 1 times.)
StripLoop(m, i0) ==
    LET stop == CHOOSE i \in (-(MaxUnder + 1))..i0 :
                    ~IsSpace(m[i]) /\ \A j \in (i + 1)..i0 : IsSpace(m[j])
    IN  [mem |-> [j \in DOMAIN m |-> IF stop < j /\ j <= i0 THEN NUL ELSE m[j]],
         i |-> stop]

CString(m) ==
    LET n == CHOOSE k \in 0..(MAX_BUFFER_LENGTH - 1) :
                 m[k] = NUL /\ \A j \in 0..(k - 1) : m[j] # NUL
    IN  [j \in 1..n |-> m[j - 1]]

\* strip_trailing_whitespace(string): the stripped string and the lowest
\* index the loop read (the index at which it stopped).
strip_trailing_whitespace(string, under) ==
    LET r == StripLoop(StringMemory(string, under),
                       Strnlen(string, MAX_BUFFER_LENGTH) - 1)
    IN  [string |-> CString(r.mem), low |-> r.i]

\* -------------------------------------------------------------- file system

\* The file system is a function from absolute paths (sequences of names,
\* <<>> the root) to nodes. A "link" is a symbolic link whose target does
\* not exist. A file's bytes are determined by its size.
Dir == [kind |-> "dir", size |-> 0]

File(n) == [kind |-> "file", size |-> n]

Link == [kind |-> "link", size |-> 0]

Content(n) == [i \in 1..n |-> i % 256]

Parent(p) == IF p = <<>> THEN <<>> ELSE SubSeq(p, 1, Len(p) - 1)

Children(fs, d) == {p \in DOMAIN fs : p # <<>> /\ Parent(p) = d}

RECURSIVE Split(_)
Split(s) ==
    IF s = <<>> THEN << <<>> >>
    ELSE LET r == Split(Tail(s))
         IN  IF Head(s) = "/" THEN << <<>> >> \o r
             ELSE << <<Head(s)>> \o Head(r) >> \o Tail(r)

Components(tok) == SelectSeq(Split(tok), LAMBDA c : c # <<>>)

\* Walks the leading components of a path; each must be a directory.
RECURSIVE WalkDirs(_, _, _)
WalkDirs(fs, cur, comps) ==
    IF comps = <<>> THEN [err |-> "OK", path |-> cur]
    ELSE LET c == Head(comps)
             p == Append(cur, c)
         IN  IF c = DOT THEN WalkDirs(fs, cur, Tail(comps))
             ELSE IF c = DOTDOT THEN WalkDirs(fs, Parent(cur), Tail(comps))
             ELSE IF p \notin DOMAIN fs \/ fs[p].kind = "link"
             THEN [err |-> "ENOENT", path |-> p]
             ELSE IF fs[p].kind # "dir" THEN [err |-> "ENOTDIR", path |-> p]
             ELSE WalkDirs(fs, p, Tail(comps))

\* The result of a path resolution: the path the name denotes (its final
\* component need not exist) and the final component itself.
Resolved(w, c) ==
    IF w.err # "OK" THEN [err |-> w.err, path |-> w.path, final |-> c]
    ELSE [err |-> "OK", final |-> c,
          path |-> IF c = DOT THEN w.path
                   ELSE IF c = DOTDOT THEN Parent(w.path)
                   ELSE Append(w.path, c)]

LookupFrom(fs, start, comps) ==
    IF comps = <<>> THEN [err |-> "OK", path |-> <<>>, final |-> DOT]
    ELSE Resolved(WalkDirs(fs, start, SubSeq(comps, 1, Len(comps) - 1)),
                  comps[Len(comps)])

\* Path resolution: relative names start at the working directory.
Lookup(fs, cwd, tok) ==
    IF tok = <<>> THEN [err |-> "ENOENT", path |-> <<>>, final |-> <<>>]
    ELSE LookupFrom(fs, IF Head(tok) = "/" THEN <<>> ELSE cwd, Components(tok))

StatAt(fs, l) ==
    IF l.err # "OK" THEN [err |-> l.err, node |-> Dir, path |-> l.path]
    ELSE IF l.path \notin DOMAIN fs \/ fs[l.path].kind = "link"
    THEN [err |-> "ENOENT", node |-> Dir, path |-> l.path]
    ELSE [err |-> "OK", node |-> fs[l.path], path |-> l.path]

\* stat(2), and open(2) for reading: symbolic links are followed, so a
\* dangling link is ENOENT.
SysStat(fs, cwd, tok) == StatAt(fs, Lookup(fs, cwd, tok))

ChdirAt(cwd, s) ==
    IF s.err # "OK" THEN [err |-> s.err, path |-> cwd]
    ELSE IF s.node.kind # "dir" THEN [err |-> "ENOTDIR", path |-> cwd]
    ELSE [err |-> "OK", path |-> s.path]

\* chdir(2) and opendir(3): the directory reached, or the error.
SysChdir(fs, cwd, tok) == ChdirAt(cwd, SysStat(fs, cwd, tok))

MkdirAt(fs, l) ==
    IF l.err # "OK" THEN [err |-> l.err, fs |-> fs]
    ELSE IF l.final \in {DOT, DOTDOT} \/ l.path \in DOMAIN fs
    THEN [err |-> "EEXIST", fs |-> fs]
    ELSE IF Cardinality(DOMAIN fs) >= MaxNodes
    THEN [err |-> "ENOSPC", fs |-> fs]
    ELSE [err |-> "OK", fs |-> (l.path :> Dir) @@ fs]

\* mkdir(2)
SysMkdir(fs, cwd, tok) == MkdirAt(fs, Lookup(fs, cwd, tok))

Remove(fs, p) == [q \in DOMAIN fs \ {p} |-> fs[q]]

RmdirAt(fs, l) ==
    IF l.err # "OK" THEN [err |-> l.err, fs |-> fs]
    ELSE IF l.final = DOT THEN [err |-> "EINVAL", fs |-> fs]
    ELSE IF l.final = DOTDOT THEN [err |-> "ENOTEMPTY", fs |-> fs]
    ELSE IF l.path \notin DOMAIN fs THEN [err |-> "ENOENT", fs |-> fs]
    ELSE IF fs[l.path].kind # "dir" THEN [err |-> "ENOTDIR", fs |-> fs]
    ELSE IF Children(fs, l.path) # {} THEN [err |-> "ENOTEMPTY", fs |-> fs]
    ELSE [err |-> "OK", fs |-> Remove(fs, l.path)]

\* rmdir(2)
SysRmdir(fs, cwd, tok) == RmdirAt(fs, Lookup(fs, cwd, tok))

UnlinkAt(fs, l) ==
    IF l.err # "OK" THEN [err |-> l.err, fs |-> fs]
    ELSE IF l.final \in {DOT, DOTDOT} THEN [err |-> "EISDIR", fs |-> fs]
    ELSE IF l.path \notin DOMAIN fs THEN [err |-> "ENOENT", fs |-> fs]
    ELSE IF fs[l.path].kind = "dir" THEN [err |-> "EISDIR", fs |-> fs]
    ELSE [err |-> "OK", fs |-> Remove(fs, l.path)]

\* unlink(2): removes a file or a symbolic link, never a directory.
SysUnlink(fs, cwd, tok) == UnlinkAt(fs, Lookup(fs, cwd, tok))

\* getcwd(current_dir, sizeof (current_dir)) as text: "/" and the names.
RECURSIVE PathString(_)
PathString(p) ==
    IF p = <<>> THEN <<>> ELSE <<"/">> \o Head(p) \o PathString(Tail(p))

GetcwdOf(fs, cwd, s) ==
    IF cwd \in DOMAIN fs /\ Len(s) < MAX_PATH_LENGTH
    THEN [ok |-> TRUE, text |-> s]
    ELSE [ok |-> FALSE, text |-> <<>>]

Getcwd(fs, cwd) ==
    GetcwdOf(fs, cwd, IF cwd = <<>> THEN <<"/">> ELSE PathString(cwd))

\* ---------------------------------------------------------------- built-ins

\* One formatted print (or one write): the format string of the source, its
\* %s argument (for a write, the bytes written) and, where the call prints
\* strerror(errno), the errno.
Pr(fmt, s, e) == [fmt |-> fmt, s |-> s, e |-> e]

\* What a built-in leaves behind: the file system and working directory
\* after it, the errno of its main system call (rc) and of the first call
\* that failed (fail), each "OK" if none, and what it printed.
Result(fs, cwd, rc, fail, out, err) ==
    [fs |-> fs, cwd |-> cwd, rc |-> rc, fail |-> fail, out |-> out, err |-> err]

\* p->pw_dir of the invoking user (the passwd entry is taken to exist).
HomeDir == <<"/", "h">>

ShowCwd(g) == IF g.ok THEN <<Pr("%s>", g.text, "")>> ELSE <<>>

\* display_prompt: what it prints.
display_prompt(fs, cwd) == ShowCwd(Getcwd(fs, cwd))

\* do_cd, lines 94-95: an empty dirname is overwritten with the home
\* directory (dirname is the global filename).
CdName(dirname) ==
    IF Strnlen(dirname, MAX_PATH_LENGTH) = 0
    THEN SubSeq(HomeDir, 1, Min(Len(HomeDir), MAX_PATH_LENGTH))
    ELSE dirname

CdResult(fs, r) ==
    Result(fs, r.path, r.err, r.err, <<>>,
           IF r.err # "OK" THEN <<Pr("cd: %s\n", <<>>, r.err)>> ELSE <<>>)

do_cd(fs, cwd, dirname) == CdResult(fs, SysChdir(fs, cwd, CdName(dirname)))

\* The names readdir returns for a directory, "." and ".." included.
Entries(fs, d) == {DOT, DOTDOT} \cup {p[Len(p)] : p \in Children(fs, d)}

\* The orders in which readdir may return them.
Orders(E) ==
    {o \in [1..Cardinality(E) -> E] : \A i, j \in DOMAIN o : o[i] = o[j] => i = j}

\* do_ls, lines 122-129, for one entry. isdir is S_ISDIR(info.st_mode): a
\* failed stat leaves info as it was, and the test after it reads it all
\* the same.
LsTag(st, isdir) == IF st.err = "OK" THEN st.node.kind = "dir" ELSE isdir

LsEntry(acc, name, st, isdir) ==
    [out |-> Append(acc.out,
                    Pr(IF LsTag(st, isdir) THEN "%-30s\t<dir>\n" ELSE "%-30s\n",
                       name, "")),
     err |-> IF st.err = "OK" THEN acc.err
             ELSE Append(acc.err, Pr("stat: %s: %s\n", name, st.err)),
     fail |-> IF st.err # "OK" /\ acc.fail = "OK" THEN st.err ELSE acc.fail,
     isdir |-> LsTag(st, isdir)]

\* The while loop of do_ls over the entries in readdir's order; the working
\* directory is `at` by now.
RECURSIVE LsLoop(_, _, _, _)
LsLoop(fs, at, ord, acc) ==
    IF ord = <<>> THEN acc
    ELSE LsLoop(fs, at, Tail(ord),
                LsEntry(acc, Head(ord), SysStat(fs, at, Head(ord)), acc.isdir))

LsResult(fs, od, r) == Result(fs, od.path, "OK", r.fail, r.out, r.err)

LsOpened(fs, cwd, dirname, ord, info0, od) ==
    IF od.err # "OK"
    THEN Result(fs, cwd, od.err, od.err, <<>>,
                <<Pr("Could not open directory %s: %s\n", dirname, od.err)>>)
    ELSE LsResult(fs, od,
                  LsLoop(fs, od.path, ord,
                         [out |-> <<>>, err |-> <<>>, fail |-> "OK",
                          isdir |-> info0]))

\* do_ls(dirname), for one enumeration order and one value of the
\* uninitialised info. opendir and the chdir(dirname) after it, whose result
\* is ignored, succeed together.
do_ls(fs, cwd, dirname, ord, info0) ==
    LsOpened(fs, cwd, dirname, ord, info0, SysChdir(fs, cwd, dirname))

\* One read(2) into do_cat's buffer: the bytes beyond readCount stay.
CatRead(content, off, buffer, readCount) ==
    [i \in 1..CAT_BUFFER_SIZE |->
        IF i <= readCount THEN content[off + i] ELSE buffer[i]]

\* The do-while of do_cat: read into buffer, then write all of buffer,
\* until a read returns nothing.
RECURSIVE CatLoop(_, _, _, _)
CatLoop(content, off, buffer, out) ==
    LET readCount == Min(CAT_BUFFER_SIZE, Len(content) - off)
    IN  IF readCount > 0
        THEN CatLoop(content, off + readCount,
                     CatRead(content, off, buffer, readCount),
                     Append(out, Pr("write",
                                    CatRead(content, off, buffer, readCount), "")))
        ELSE Append(out, Pr("write", buffer, ""))

\* open(2) opens a directory too; the read(2) then fails with EISDIR and
\* the buffer is written as it is.
CatOpened(fs, cwd, filename, b0, st) ==
    IF st.err # "OK"
    THEN Result(fs, cwd, st.err, st.err,
                <<Pr("Unable to open %s: %s\n", filename, st.err)>>, <<>>)
    ELSE IF st.node.kind = "dir"
    THEN Result(fs, cwd, "OK", "EISDIR", <<Pr("write", b0, "")>>, <<>>)
    ELSE Result(fs, cwd, "OK", "OK",
                CatLoop(Content(st.node.size), 0, b0, <<>>), <<>>)

\* do_cat(filename), the uninitialised buffer holding `stale` in every byte.
do_cat(fs, cwd, filename, stale) ==
    CatOpened(fs, cwd, filename, [i \in 1..CAT_BUFFER_SIZE |-> stale],
              SysStat(fs, cwd, filename))

\* do_mkdir, do_rmdir and do_rm: one system call, and on its failure one
\* fprintf to stderr.
Reported(cwd, r, fmt, name) ==
    Result(r.fs, cwd, r.err, r.err, <<>>,
           IF r.err # "OK" THEN <<Pr(fmt, name, r.err)>> ELSE <<>>)

do_mkdir(fs, cwd, dirname) ==
    Reported(cwd, SysMkdir(fs, cwd, dirname),
             "Error making directory %s: %s\n", dirname)

\* do_rmdir calling unlink(2), the call of do_rm, in place of rmdir(2).
do_rmdir_unlinks(fs, cwd, dirname) ==
    Reported(cwd, SysUnlink(fs, cwd, dirname),
             "Error removing directory %s: %s\n", dirname)

do_rmdir(fs, cwd, dirname) ==
    Reported(cwd, SysRmdir(fs, cwd, dirname),
             "Error removing directory %s: %s\n", dirname)

do_rm(fs, cwd, filename) ==
    Reported(cwd, SysUnlink(fs, cwd, filename),
             "Error unlinking file %s: %s\n", filename)

PwdResult(fs, cwd, g) ==
    Result(fs, cwd, IF g.ok THEN "OK" ELSE "ENOENT",
           IF g.ok THEN "OK" ELSE "ENOENT",
           IF g.ok THEN <<Pr("%s>", g.text, "")>> ELSE <<>>, <<>>)

do_pwd(fs, cwd) == PwdResult(fs, cwd, Getcwd(fs, cwd))

\* do_stat(filename): the time, mode, link count and inode are not modelled.
StatResult(fs, cwd, filename, st) ==
    IF st.err # "OK"
    THEN Result(fs, cwd, st.err, st.err, <<>>,
                <<Pr("Error getting stats for %s: %s\n", filename, st.err)>>)
    ELSE Result(fs, cwd, "OK", "OK",
                <<Pr("File Name: %s\n", filename, ""),
                  Pr("Total Size: %i\n", <<st.node.size>>, ""),
                  Pr("Last Modified: %s", <<>>, ""),
                  Pr("Protection: %i\n", <<st.node.kind>>, ""),
                  Pr("Number of hardlinks: %i\n", <<>>, ""),
                  Pr("Inode: %i\n", <<>>, "")>>, <<>>)

do_stat(fs, cwd, filename) == StatResult(fs, cwd, filename, SysStat(fs, cwd, filename))

\* -------------------------------------------------------------- the program

VARIABLES
    pc,         \* where main is: "prompt", "read", "dispatch", "terminated"
    stdin,      \* what is left of the line being typed, its newline included
    eof,        \* standard input has reached its end
    chunk,      \* how many fgets calls have read from the current input line
    buffer,     \* the global buffer, as a C string
    filename,   \* the global filename, as a C string
    fs,         \* the file system
    cwd,        \* the process working directory
    shown,      \* what display_prompt printed in this iteration
    out,        \* standard output of the command of this iteration
    err,        \* standard error of the command of this iteration
    cmd,        \* the built-in run in this iteration, its argument and outcome
    prevCd,     \* the iteration before this one ran a cd that succeeded
    rt,         \* progress of a mkdir D / rmdir D / stat D sequence
    stripLow    \* the lowest index strip_trailing_whitespace read

vars == <<pc, stdin, eof, chunk, buffer, filename, fs, cwd, shown, out, err,
          cmd, prevCd, rt, stripLow>>

Home == << <<"h">> >>

InitFS ==
    (<<>> :> Dir) @@ (Home :> Dir)
    @@ (<< <<"h">>, <<"f">> >> :> File(3))
    @@ (<< <<"h">>, <<"d">> >> :> Dir)
    @@ (<< <<"h">>, <<"d">>, <<"l">> >> :> Link)
    @@ (<< <<"h">>, <<"d">>, <<"g">> >> :> File(CAT_BUFFER_SIZE + 1))

Line(kw, arg) == kw \o <<" ">> \o arg

\* "mkdir a", padded with blanks to MAX_BUFFER_LENGTH - 1 characters, and
\* "rm f" after them: one line of input longer than the buffer.
LongLine ==
    LET head == Line(S_mkdir, <<"a">>)
    IN  head \o Spaces(MAX_BUFFER_LENGTH - 1 - Len(head)) \o Line(S_rm, <<"f">>)

\* The lines the user may type (without their newline).
Lines ==
    { S_ls, Line(S_ls, <<"d">>),
      S_cd, Line(S_cd, <<"d">>), Line(S_cd, <<"a">>), Line(S_cd, DOTDOT),
      S_pwd,
      Line(S_cat, <<"f">>), Line(S_cat, <<"g">>), Line(S_cat, <<"d">>),
      Line(S_stat, <<"a">>), Line(S_stat, <<"f", "/", "a">>),
      Line(S_mkdir, <<"a">>), S_mkdir \o <<"a">>, Line(S_mkdir, <<"f", "/", "a">>),
      Line(S_rmdir, <<"a">>), Line(S_rmdir, <<"f", "/", "a">>), S_rmdir,
      Line(S_rm, <<"f">>),
      <<"f", "o", "o", "b", "a", "r">>,
      <<>>, <<" ">>,
      S_exit,
      LongLine }

NoCmd == [op |-> "none", arg |-> <<>>, rc |-> "OK", fail |-> "OK"]

NoRt == [stage |-> 0, arg |-> <<>>, pre |-> <<>>, rcs |-> <<>>]

\* A mkdir starts the sequence, the rmdir and then the stat of the same
\* argument advance it, anything else ends it. pre is the file system before
\* the mkdir, rcs the outcomes of the commands of the sequence so far.
NextRt(op, arg, rc, before) ==
    IF op = "mkdir"
    THEN [stage |-> 1, arg |-> arg, pre |-> before, rcs |-> <<rc>>]
    ELSE IF op = "rmdir" /\ rt.stage = 1 /\ rt.arg = arg
    THEN [rt EXCEPT !.stage = 2, !.rcs = Append(rt.rcs, rc)]
    ELSE IF op = "stat" /\ rt.stage = 2 /\ rt.arg = arg
    THEN [rt EXCEPT !.stage = 3, !.rcs = Append(rt.rcs, rc)]
    ELSE NoRt

Init ==
    /\ pc = "prompt"
    /\ stdin = <<>>
    /\ eof = FALSE
    /\ chunk = 0
    /\ buffer = <<>>
    /\ filename = <<>>
    /\ fs = InitFS
    /\ cwd \in {Home, <<>>}
    /\ shown = <<>>
    /\ out = <<>>
    /\ err = <<>>
    /\ cmd = NoCmd
    /\ prevCd = FALSE
    /\ rt = NoRt
    /\ stripLow = 0

\* main, line 66: display_prompt() opens an iteration of the loop.
Prompt ==
    /\ pc = "prompt"
    /\ shown' = display_prompt(fs, cwd)
    /\ prevCd' = (cmd.op = "cd" /\ cmd.rc = "OK")
    /\ out' = <<>>
    /\ err' = <<>>
    /\ cmd' = NoCmd
    /\ stripLow' = 0
    /\ pc' = "read"
    /\ UNCHANGED <<stdin, eof, chunk, buffer, filename, fs, cwd, rt>>

\* main, lines 69-71: fgets returned a line; strip it, clear filename.
Accepted(line, rest, n, under) ==
    /\ buffer' = strip_trailing_whitespace(line, under).string
    /\ stripLow' = strip_trailing_whitespace(line, under).low
    /\ stdin' = rest
    /\ chunk' = n
    /\ filename' = <<>>
    /\ pc' = "dispatch"
    /\ UNCHANGED <<eof, fs, cwd, shown, out, err, cmd, prevCd, rt>>

Accept(stream, n) ==
    \E under \in 0..MaxUnder :
        Accepted(Fgets(stream).line, Fgets(stream).rest, n, under)

\* The user types a line.
ReadLine ==
    /\ pc = "read" /\ stdin = <<>> /\ ~eof
    /\ \E l \in Lines : Accept(l \o <<"\n">>, 1)

\* fgets finds the rest of a line it read only in part.
ReadRest ==
    /\ pc = "read" /\ stdin # <<>>
    /\ Accept(stdin, chunk + 1)

\* main, line 69: fgets returns 0 at the end of input; the while (1) goes on.
ReadEof ==
    /\ pc = "read" /\ stdin = <<>>
    /\ eof' = TRUE
    /\ pc' = "prompt"
    /\ UNCHANGED <<stdin, chunk, buffer, filename, fs, cwd, shown, out, err,
                   cmd, prevCd, rt, stripLow>>

\* main, line 74: the test that sends a line to do_cd.
IsCd(b) == Sscanf(b, S_cd).rc = 1 \/ StrncmpEq(b, S_cd, MAX_BUFFER_LENGTH)

\* main, line 77
IsExit(b) == StrncmpEq(b, S_exit, MAX_BUFFER_LENGTH)

\* execute_command: the chain of tests, in the order of the source, and the
\* filename the chosen branch passes on. A failed sscanf stores nothing, so
\* filename is still empty when "ls" is matched by strncmp alone.
execute_command(b) ==
    IF Sscanf(b, S_cat).rc = 1 THEN [op |-> "cat", arg |-> Sscanf(b, S_cat).tok]
    ELSE IF Sscanf(b, S_stat).rc = 1
    THEN [op |-> "stat", arg |-> Sscanf(b, S_stat).tok]
    ELSE IF Sscanf(b, S_mkdir).rc = 1
    THEN [op |-> "mkdir", arg |-> Sscanf(b, S_mkdir).tok]
    ELSE IF Sscanf(b, S_rmdir).rc = 1
    THEN [op |-> "rmdir", arg |-> Sscanf(b, S_rmdir).tok]
    ELSE IF Sscanf(b, S_rm).rc = 1 THEN [op |-> "rm", arg |-> Sscanf(b, S_rm).tok]
    ELSE IF Sscanf(b, S_ls).rc = 1 \/ StrncmpEq(b, S_ls, MAX_BUFFER_LENGTH)
    THEN [op |-> "ls",
          arg |-> IF Sscanf(b, S_ls).rc = 1 THEN Sscanf(b, S_ls).tok ELSE DOT]
    ELSE IF StrncmpEq(b, S_pwd, MAX_BUFFER_LENGTH) THEN [op |-> "pwd", arg |-> <<>>]
    ELSE [op |-> "invalid", arg |-> <<>>]

\* The line is handed to execute_command and its chain picks `op`.
Executes(op) ==
    /\ pc = "dispatch"
    /\ ~IsCd(buffer) /\ ~IsExit(buffer)
    /\ execute_command(buffer).op = op

\* The filename execute_command passes to the built-in.
Arg == execute_command(buffer).arg

\* A built-in has run with result r; control returns to the top of the loop.
Done(op, arg, r) ==
    /\ cmd' = [op |-> op, arg |-> arg, rc |-> r.rc, fail |-> r.fail]
    /\ out' = r.out
    /\ err' = r.err
    /\ rt' = NextRt(op, arg, r.rc, fs)
    /\ fs' = r.fs
    /\ cwd' = r.cwd
    /\ filename' = arg
    /\ pc' = "prompt"
    /\ UNCHANGED <<stdin, eof, chunk, buffer, shown, prevCd, stripLow>>

\* main, line 74: the dirname do_cd is called with (sscanf stored it, or
\* filename is still empty).
CdArg(s) == IF s.rc = 1 THEN s.tok ELSE <<>>

\* main, lines 74-76
MainCd ==
    /\ pc = "dispatch" /\ IsCd(buffer)
    /\ Done("cd", CdName(CdArg(Sscanf(buffer, S_cd))),
            do_cd(fs, cwd, CdArg(Sscanf(buffer, S_cd))))

\* main, lines 77-78: exit(0)
MainExit ==
    /\ pc = "dispatch" /\ ~IsCd(buffer) /\ IsExit(buffer)
    /\ cmd' = [op |-> "exit", arg |-> <<>>, rc |-> "OK", fail |-> "OK"]
    /\ pc' = "terminated"
    /\ UNCHANGED <<stdin, eof, chunk, buffer, filename, fs, cwd, shown, out,
                   err, prevCd, rt, stripLow>>

ExecCat ==
    /\ Executes("cat")
    /\ \E stale \in StaleBytes : Done("cat", Arg, do_cat(fs, cwd, Arg, stale))

ExecStat ==
    /\ Executes("stat")
    /\ Done("stat", Arg, do_stat(fs, cwd, Arg))

ExecMkdir ==
    /\ Executes("mkdir")
    /\ Done("mkdir", Arg, do_mkdir(fs, cwd, Arg))

ExecRmdir ==
    /\ Executes("rmdir")
    /\ Done("rmdir", Arg, do_rmdir(fs, cwd, Arg))

ExecRm ==
    /\ Executes("rm")
    /\ Done("rm", Arg, do_rm(fs, cwd, Arg))

\* The entries of the directory do_ls lists, when it can be opened.
ListedAt(od) == IF od.err = "OK" THEN Entries(fs, od.path) ELSE {}

Listed(a) == ListedAt(SysChdir(fs, cwd, a))

ExecLs ==
    /\ Executes("ls")
    /\ \E ord \in Orders(Listed(Arg)), info0 \in BOOLEAN :
           Done("ls", Arg, do_ls(fs, cwd, Arg, ord, info0))

ExecPwd ==
    /\ Executes("pwd")
    /\ Done("pwd", <<>>, do_pwd(fs, cwd))

\* execute_command, lines 237-242: an empty line prints nothing.
ExecInvalid ==
    /\ Executes("invalid")
    /\ Done("invalid", <<>>,
            Result(fs, cwd, "OK", "OK", <<>>,
                   IF Strnlen(buffer, MAX_BUFFER_LENGTH) # 0
                   THEN <<Pr("myshell: %s: No such file or directory\n",
                             buffer, "")>>
                   ELSE <<>>))

Next ==
    \/ Prompt
    \/ ReadLine
    \/ ReadRest
    \/ ReadEof
    \/ MainCd
    \/ MainExit
    \/ ExecCat
    \/ ExecStat
    \/ ExecMkdir
    \/ ExecRmdir
    \/ ExecRm
    \/ ExecLs
    \/ ExecPwd
    \/ ExecInvalid

Spec == Init /\ [][Next]_vars

\* ------------------------------------------------------------------ claims

\* C1: once end-of-input has been observed on standard input, the
\* interpreter is in its terminated state: it shows no further prompt and
\* attempts no further read.
C1_EofTerminates == eof => pc = "terminated"

\* C2: a command that is not cd (ls with or without an argument, cat, stat,
\* mkdir, rmdir, rm, pwd, an unrecognised line) leaves the working directory
\* as it was before the command.
C2_OnlyCdMovesCwd ==
    [][(pc = "dispatch"
        /\ cmd'.op \in {"ls", "cat", "stat", "mkdir", "rmdir", "rm", "pwd", "invalid"})
       => cwd' = cwd]_vars

\* The bytes a command wrote to standard output with write(2).
RECURSIVE Written(_)
Written(o) ==
    IF o = <<>> THEN <<>>
    ELSE (IF Head(o).fmt = "write" THEN Head(o).s ELSE <<>>) \o Written(Tail(o))

\* The file the cat of this iteration opened.
CatFile == SysStat(fs, cwd, cmd.arg).node

\* C3: cat of a file that can be opened writes to standard output exactly
\* the bytes of the file, whatever its length.
C3_CatWritesTheFile ==
    (cmd.op = "cat" /\ cmd.rc = "OK" /\ CatFile.kind = "file")
        => Written(out) = Content(CatFile.size)

Keywords == {S_cd, S_exit, S_cat, S_stat, S_mkdir, S_rmdir, S_rm, S_ls, S_pwd}

FirstToken(b) == Token(SkipSpace(b))

\* C4: a non-empty line whose first white-space-delimited token is not one
\* of the nine keywords prints exactly "myshell: <line>: No such file or
\* directory" to the error stream, runs no built-in and changes neither the
\* working directory nor the file system.
C4_UnknownLineOnlyDiagnosed ==
    [][(pc = "dispatch" /\ buffer # <<>> /\ FirstToken(buffer) \notin Keywords)
       => /\ err' = <<Pr("myshell: %s: No such file or directory\n", buffer, "")>>
          /\ out' = <<>>
          /\ cmd'.op = "invalid"
          /\ fs' = fs
          /\ cwd' = cwd]_vars

\* C5: a pwd that follows a successful cd prints exactly the path of the
\* directory the cd went to, and nothing else.
C5_PwdPrintsThePath ==
    (cmd.op = "pwd" /\ prevCd)
        => out \in {<<Pr("%s", Getcwd(fs, cwd).text, "")>>,
                    <<Pr("%s\n", Getcwd(fs, cwd).text, "")>>}

\* D named no entry of the file system before the mkdir of the sequence.
NoEntryBefore ==
    LET l == Lookup(rt.pre, cwd, rt.arg)
    IN  l.err # "OK" \/ l.path \notin DOMAIN rt.pre

\* C6 as claimed: for any D, after mkdir D and rmdir D the file system is
\* what it was before the mkdir, and the stat D after them reports ENOENT.
C6_RoundTripAnyPath ==
    /\ rt.stage \in {2, 3} => fs = rt.pre
    /\ rt.stage = 3 => rt.rcs[3] = "ENOENT"

\* C6 as amended: for any D that names no existing entry before the mkdir,
\* after mkdir D and rmdir D the file system is what it was before the mkdir,
\* and the stat D after them fails: not found, or not a directory when a
\* leading component of D is not a directory.
C6_RoundTripFreshPath ==
    NoEntryBefore =>
        /\ rt.stage \in {2, 3} => fs = rt.pre
        /\ rt.stage = 3 => rt.rcs[3] \in {"ENOENT", "ENOTDIR"}

\* C6 witness: D did not exist, the mkdir created it, the rmdir removed it
\* and the stat has run.
C6_Witness ==
    /\ rt.stage = 3
    /\ NoEntryBefore
    /\ rt.rcs[1] = "OK"
    /\ rt.rcs[2] = "OK"

\* The entry of the listed directory is itself a directory. (After do_ls the
\* working directory is the directory it listed.)
IsDirEntry(name) ==
    LET l == Lookup(fs, cwd, name)
    IN  l.err = "OK" /\ l.path \in DOMAIN fs /\ fs[l.path].kind = "dir"

\* C7: when ls can open the directory, every entry it prints carries the
\* <dir> tag if and only if the entry is itself a directory, in every
\* enumeration order and also for an entry whose stat failed.
C7_TagIffDirectory ==
    (cmd.op = "ls" /\ cmd.rc = "OK")
        => \A i \in DOMAIN out :
               (out[i].fmt = "%-30s\t<dir>\n") <=> IsDirEntry(out[i].s)

\* Some print of this iteration carried an error description.
ErrorReported ==
    \/ \E i \in DOMAIN out : out[i].e # ""
    \/ \E i \in DOMAIN err : err[i].e # ""

\* C8: after a command other than exit in which a file system call failed,
\* the error has been reported and the interpreter is back at the top of its
\* loop, not terminated; it terminates only through exit or end-of-input.
C8_FailureReportedNotFatal ==
    /\ (cmd.op \notin {"none", "exit"} /\ cmd.fail # "OK")
           => (pc = "prompt" /\ ErrorReported)
    /\ pc = "terminated" => (cmd.op = "exit" \/ eof)

\* The part of C8 about termination alone, which the model satisfies: no
\* failed command terminates the interpreter, and only exit does.
C8_NotFatal ==
    /\ (cmd.op \notin {"none", "exit"} /\ cmd.fail # "OK") => pc = "prompt"
    /\ pc = "terminated" => cmd.op = "exit"

\* C9: a command is dispatched only from the first read of an input line:
\* what lies beyond the buffer's length is never read back as a command.
C9_OneCommandPerLine == cmd.op # "none" => chunk <= 1

\* C10: strip_trailing_whitespace reads and writes the buffer at indices
\* 0 .. MAX_BUFFER_LENGTH - 1 only: its index never goes below 0.
C10_StripStaysInBuffer == stripLow >= 0 /\ stripLow <= MAX_BUFFER_LENGTH - 1

====
